---- MODULE Spec2Model ----
(***************************************************************************)
(* Model of "Karbogha Bayanat/python_short.py": a batch tool that cuts a   *)
(* long media file into shorts following a JSON plan.                      *)
(*                                                                         *)
(* Four specifications share the module:                                   *)
(*   Spec      main(): the pre-flight checks, the batch loop over the plan *)
(*             entries, process_short step by step, the manifest;          *)
(*   SpecThumb generate_thumbnail's wrap and shrink loop;                  *)
(*   SpecSrt   wrap_srt_text on one caption block;                         *)
(*   SpecWrap  the two greedy word wraps applied twice.                    *)
(* Each specification moves its own variables and leaves the others at     *)
(* their idle values.                                                      *)
(***************************************************************************)
EXTENDS Integers, Sequences, FiniteSets, TLC

VARIABLES
    \* ---- main() / process_short ----
    pc,             \* position of main() (and of process_short inside the loop)
    exit_code,      \* process outcome: "running", "0", "1" (sys.exit(1)), "traceback"
    batch_failure,  \* the batch-level failure the environment presented, or "none"
    media_kind,     \* media_info["codec_type"]: "video" | "audio" | "unknown"
    source_path,    \* source_media_path, a file name
    source_state,   \* state of the file at source_path: "intact" | "overwritten" | "partial"
    n_shorts,       \* len(shorts_list)
    idx,            \* number of entries the for loop has fetched
    short_data,     \* the entry being handled (NoShort between iterations)
    handed,         \* number of calls of process_short
    outcome,        \* per handed entry: "done" | "skipped" | the exception that failed it
    engine_failed,  \* an external-engine (ffmpeg) invocation failed for the current clip
    manifest_data,  \* the list of result records
    manifest_written, \* manifest.csv was written by this run
    outdir,         \* files this run wrote into args.outdir: [name, complete]
    work_dirs,      \* the per-clip temporary directories that exist: [clip, files]
    \* ---- the text functions, each a record of its locals ----
    thumb,          \* generate_thumbnail: pc, title, direction, size, max_lines,
                    \*   words, font_size, lines
    srt,            \* wrap_srt_text: pc, block, script, font_size, max_width,
                    \*   wrapped_content
    wrap            \* a word wrap applied twice: pc, words, script, font_size,
                    \*   max_width, and the lines of each pass

batch_vars == <<pc, exit_code, batch_failure, media_kind, source_path, source_state,
                n_shorts, idx, short_data, handed, outcome, engine_failed,
                manifest_data, manifest_written, outdir, work_dirs>>
text_vars == <<thumb, srt, wrap>>
vars == <<batch_vars, text_vars>>

(***************************************************************************)
(* Bounds of the model.                                                    *)
(***************************************************************************)
MaxPlan == 2        \* longest plan
MaxWords == 3       \* most words in a title or in a caption line
MaxWordLen == 4     \* most characters in a word

(***************************************************************************)
(* Program constants.                                                      *)
(***************************************************************************)
MinDuration == 5        \* 5.0 <= duration
MaxDuration == 60       \* duration <= 60.0
FontFloor == 10         \* while ... font_size > 10
ShrinkStep == 2         \* font_size -= 2
HeightDivisor == 12     \* font_size = int(height / 12)

(***************************************************************************)
(* Plan entries.  An optional or possibly missing field is a sequence:     *)
(* <<>> when the key is absent from the dict, <<v>> when it holds v.       *)
(* title is "Hello World" (a string), NonString (a JSON number or null) or *)
(* Missing (no such key).                                                  *)
(***************************************************************************)
NonString == "<non-string>"
Missing == "<missing>"
NoShort == [id |-> 0]

Titles == {"Hello World", NonString, Missing}
Opt(S) == {<<>>} \cup {<<v>> : v \in S}

\* The entries a plan may hold at position i (ids are unique: the position).
ShortsAt(i) ==
    [id : {i},
     title : Titles,
     start_sec : {10},
     end_sec : {13, 16, 71},
     duration_sec : Opt({3, 6, 61}),
     srt : Opt({"1\n00:00:00,000 --> 00:00:02,000\nsalam"}),
     thumbnail_title : Opt({"Hello"}),
     language : Opt({"ur"})]

\* short_data.get(key) is truthy / short_data[key] does not raise KeyError
Has(field) == field # <<>>

\* slugify(): lower-cases, drops punctuation, joins the words with '-'
slugify(title) ==
    CASE title = "Hello World" -> "hello-world"
      [] title = NonString -> "<TypeError>"
      [] OTHER -> ""

\* The three deterministic output names of a clip (lines 162-164).
VideoName(sd) == <<sd.id, slugify(sd.title), "mp4">>
SrtName(sd) == <<sd.id, slugify(sd.title), "srt">>
ThumbName(sd) == <<sd.id, "thumb", "jpg">>

\* A local media file that is no output of this tool.
LongMedia == <<0, "lecture", "mp4">>
\* A file downloaded into the batch's own temporary directory.
Downloaded == <<0, "downloaded", "mp4">>

\* Writing a file into the output directory replaces a file of the same name.
WriteOut(dir, name, complete) ==
    {f \in dir : f.name # name} \cup {[name |-> name, complete |-> complete]}

\* The record process_short returns (line 212); the fields copied verbatim from
\* the entry are kept to the ones the checks read.
ResultRecord(sd) ==
    [id |-> sd.id,
     start_sec |-> sd.start_sec,
     end_sec |-> sd.end_sec,
     duration_sec |-> sd.duration_sec[1],
     video_path |-> VideoName(sd),
     srt_path |-> IF Has(sd.srt) THEN <<SrtName(sd)>> ELSE <<>>,
     thumb_path |-> ThumbName(sd)]

(***************************************************************************)
(* Idle values of the variables of the other specifications.               *)
(***************************************************************************)
BatchIdle ==
    /\ pc = "idle" /\ exit_code = "running" /\ batch_failure = "none"
    /\ media_kind = "unknown" /\ source_path = LongMedia /\ source_state = "intact"
    /\ n_shorts = 0 /\ idx = 0 /\ short_data = NoShort /\ handed = 0
    /\ outcome = <<>> /\ engine_failed = FALSE
    /\ manifest_data = <<>> /\ manifest_written = FALSE
    /\ outdir = {} /\ work_dirs = {}
Idle == [pc |-> "idle"]

(***************************************************************************)
(* main(): pre-flight.                                                     *)
(***************************************************************************)
Init ==
    /\ pc = "check_dependencies" /\ exit_code = "running" /\ batch_failure = "none"
    /\ media_kind = "unknown" /\ source_path = LongMedia /\ source_state = "intact"
    /\ n_shorts = 0 /\ idx = 0 /\ short_data = NoShort /\ handed = 0
    /\ outcome = <<>> /\ engine_failed = FALSE
    /\ manifest_data = <<>> /\ manifest_written = FALSE
    /\ outdir = {} /\ work_dirs = {}
    /\ thumb = Idle /\ srt = Idle /\ wrap = Idle

\* sys.exit(1) or an uncaught exception ends the process; the with-blocks that
\* are open are left on the way out.
Terminate(code) ==
    /\ pc' = "exit"
    /\ exit_code' = code
    /\ work_dirs' = {}

\* check_dependencies(): ffmpeg and ffprobe must be on the PATH.
\* batch_failure records what the environment presented, whatever the code
\* makes of it.
CheckDependencies ==
    /\ pc = "check_dependencies"
    /\ \E ffmpeg \in BOOLEAN, ffprobe \in BOOLEAN :
         /\ batch_failure' = IF ffmpeg /\ ffprobe THEN "none" ELSE "engine"
         /\ IF ffmpeg /\ ffprobe
            THEN /\ pc' = "load_plan"
                 /\ UNCHANGED <<exit_code, work_dirs>>
            ELSE Terminate("1")
    /\ UNCHANGED <<media_kind, source_path, source_state, n_shorts, idx, short_data,
                   handed, outcome, engine_failed, manifest_data,
                   manifest_written, outdir>>
    /\ UNCHANGED text_vars

\* The plan file: is_file() or sys.exit(1); mkdir of the output directory;
\* json.load raises on an unreadable or malformed file, which nothing catches.
LoadPlan ==
    /\ pc = "load_plan"
    /\ \E plan_file \in {"ok", "missing", "unreadable"} :
         /\ batch_failure' = IF plan_file = "ok" THEN "none" ELSE "plan"
         /\ CASE plan_file = "ok" ->
                   /\ pc' = "prepare_media_source"
                   /\ UNCHANGED <<exit_code, work_dirs>>
              [] plan_file = "missing" -> Terminate("1")
              [] plan_file = "unreadable" -> Terminate("traceback")
    /\ UNCHANGED <<media_kind, source_path, source_state, n_shorts, idx, short_data,
                   handed, outcome, engine_failed, manifest_data,
                   manifest_written, outdir>>
    /\ UNCHANGED text_vars

\* What prepare_media_source() makes of args.media: the local file to use, or
\* <<>> when there is none (sys.exit(1) for a missing local file or a failed
\* direct download; the downloader's own exception for a failed video-site
\* fetch).  A local path is used in place: it may be any file, also one that
\* an earlier run of the tool left in the output directory under a clip's name.
prepare_media_source(media) ==
    CASE media = "local" -> <<LongMedia>>
      [] media = "local_in_outdir" -> <<<<1, slugify("Hello World"), "mp4">>>>
      [] media = "url" -> <<Downloaded>>
      [] OTHER -> <<>>

\* prepare_media_source() then get_media_info(), which answers "audio" for
\* every probe without a video stream, and for a failed probe.
PrepareMediaSource ==
    /\ pc = "prepare_media_source"
    /\ \E media \in {"local", "local_in_outdir", "local_missing", "url", "url_fails",
                     "youtube_fails"},
          kind \in {"video", "audio"} :
         LET resolved == prepare_media_source(media) IN
         /\ batch_failure' =
              IF media \in {"local", "local_in_outdir", "url"} THEN "none" ELSE "media"
         /\ IF resolved # <<>>
            THEN /\ source_path' = resolved[1]
                 /\ media_kind' = kind
                 /\ pc' = "fonts"
                 /\ UNCHANGED <<exit_code, work_dirs>>
            ELSE /\ Terminate(IF media = "youtube_fails" THEN "traceback" ELSE "1")
                 /\ UNCHANGED <<source_path, media_kind>>
    /\ UNCHANGED <<source_state, n_shorts, idx, short_data, handed, outcome,
                   engine_failed, manifest_data, manifest_written, outdir>>
    /\ UNCHANGED text_vars

\* Line 247: the fonts are needed when captions are burned (the default) or
\* the source is audio.
needs_fonts(burn_captions, kind) == burn_captions \/ kind = "audio"

\* The font test with one font enough.
FontsPresentEither(font_calibri, font_urdu) == font_calibri \/ font_urdu

\* Lines 249-250: both fonts must be given and be files.
FontsPresent(font_calibri, font_urdu) == font_calibri /\ font_urdu

\* Lines 239-250: a needed font that is no file ends the run.
CheckFonts ==
    /\ pc = "fonts"
    /\ \E burn_captions \in BOOLEAN, font_calibri \in BOOLEAN, font_urdu \in BOOLEAN :
         /\ batch_failure' =
              IF (burn_captions \/ media_kind = "audio") /\ ~(font_calibri /\ font_urdu)
              THEN "font" ELSE "none"
         /\ IF needs_fonts(burn_captions, media_kind)
               /\ ~FontsPresent(font_calibri, font_urdu)
            THEN Terminate("1")
            ELSE /\ pc' = "shorts_list"
                 /\ UNCHANGED <<exit_code, work_dirs>>
    /\ UNCHANGED <<media_kind, source_path, source_state, n_shorts, idx, short_data,
                   handed, outcome, engine_failed, manifest_data,
                   manifest_written, outdir>>
    /\ UNCHANGED text_vars

\* Lines 252-254: an empty plan returns from main() at once.  The entries of
\* shorts_list are fixed by the plan file; the model draws each one when the
\* loop fetches it, no step reads an entry earlier.
LoadShorts ==
    /\ pc = "shorts_list"
    /\ \E n \in 0..MaxPlan :
         /\ n_shorts' = n
         /\ IF n = 0
            THEN /\ pc' = "exit" /\ exit_code' = "0" /\ work_dirs' = {}
            ELSE /\ pc' = "loop" /\ UNCHANGED <<exit_code, work_dirs>>
    /\ UNCHANGED <<batch_failure, media_kind, source_path, source_state, idx,
                   short_data, handed, outcome, engine_failed,
                   manifest_data, manifest_written, outdir>>
    /\ UNCHANGED text_vars

(***************************************************************************)
(* main(): the batch loop.                                                 *)
(***************************************************************************)
\* The except clause of line 262: the clip is abandoned, its with-block is
\* left (the temporary directory goes), the loop goes on.
ClipFails(cause) ==
    /\ pc' = "loop"
    /\ outcome' = Append(outcome, cause)
    /\ work_dirs' = {}
    /\ short_data' = NoShort

\* Lines 257-258: fetch the next entry and show its title.  The slice of the
\* title is taken outside the try block: a title that is no string raises
\* TypeError there and ends main().  Line 260 then calls process_short.
NextShort ==
    /\ pc = "loop"
    /\ idx < n_shorts
    /\ \E sd \in ShortsAt(idx + 1) :
         /\ idx' = idx + 1
         /\ IF sd.title = NonString
            THEN /\ Terminate("traceback")
                 /\ UNCHANGED <<short_data, handed, engine_failed>>
            ELSE /\ pc' = "validate"
                 /\ short_data' = sd
                 /\ handed' = handed + 1
                 /\ engine_failed' = FALSE
                 /\ UNCHANGED <<exit_code, work_dirs>>
    /\ UNCHANGED <<batch_failure, media_kind, source_path, source_state, n_shorts,
                   outcome, manifest_data, manifest_written, outdir>>
    /\ UNCHANGED text_vars

\* The for loop is exhausted; the batch's with-block ends.
EndLoop ==
    /\ pc = "loop"
    /\ idx = n_shorts
    /\ pc' = "manifest"
    /\ UNCHANGED <<exit_code, batch_failure, media_kind, source_path, source_state,
                   n_shorts, idx, short_data, handed, outcome, engine_failed, manifest_data, manifest_written, outdir, work_dirs>>
    /\ UNCHANGED text_vars

\* The manifest step without its `if manifest_data`: the file is always written.
WriteManifestAlways ==
    /\ pc = "manifest"
    /\ manifest_written' = TRUE
    /\ pc' = "exit"
    /\ exit_code' = "0"
    /\ UNCHANGED <<batch_failure, media_kind, source_path, source_state, n_shorts,
                   idx, short_data, handed, outcome, engine_failed,
                   manifest_data, outdir, work_dirs>>
    /\ UNCHANGED text_vars

\* Lines 266-273: the manifest is written when manifest_data is not empty.
WriteManifest ==
    /\ pc = "manifest"
    /\ manifest_written' = (manifest_data # <<>>)
    /\ pc' = "exit"
    /\ exit_code' = "0"
    /\ UNCHANGED <<batch_failure, media_kind, source_path, source_state, n_shorts,
                   idx, short_data, handed, outcome, engine_failed,
                   manifest_data, outdir, work_dirs>>
    /\ UNCHANGED text_vars

(***************************************************************************)
(* process_short, one step per action.                                     *)
(***************************************************************************)
\* Line 167.
DurationInRange(duration) == MinDuration <= duration /\ duration <= MaxDuration

\* Lines 161-169: the output names (short_data['title'] raises KeyError when
\* the key is missing), then the duration test on short_data['duration_sec']
\* (KeyError when the key is missing).
Validate ==
    /\ pc = "validate"
    /\ IF ~(short_data.title # Missing /\ Has(short_data.duration_sec))
       THEN /\ ClipFails("KeyError")
       ELSE IF ~DurationInRange(short_data.duration_sec[1])
       THEN /\ pc' = "loop"
            /\ outcome' = Append(outcome, "skipped")
            /\ short_data' = NoShort
            /\ UNCHANGED <<work_dirs>>
       ELSE /\ pc' = "write_srt"
            /\ UNCHANGED <<outcome, short_data, work_dirs>>
    /\ UNCHANGED <<exit_code, batch_failure, media_kind, source_path, source_state,
                   n_shorts, idx, handed, engine_failed, manifest_data,
                   manifest_written, outdir>>
    /\ UNCHANGED text_vars

\* Lines 172-174: the caption file goes straight into the output directory.
WriteSrt ==
    /\ pc = "write_srt"
    /\ outdir' = IF Has(short_data.srt)
                 THEN WriteOut(outdir, SrtName(short_data), TRUE)
                 ELSE outdir
    /\ pc' = "prepare"
    /\ UNCHANGED <<exit_code, batch_failure, media_kind, source_path, source_state,
                   n_shorts, idx, short_data, handed, outcome, engine_failed, manifest_data, manifest_written, work_dirs>>
    /\ UNCHANGED text_vars

\* Lines 176-180: the temporary directory and the working copy of the source.
\* shutil.copy reads the source; it raises OSError when the copy cannot be made.
PrepareWorkDir ==
    /\ pc = "prepare"
    /\ \E copied \in BOOLEAN :
         IF copied
         THEN /\ work_dirs' = work_dirs
                     \cup {[clip |-> short_data.id, files |-> {"source"}]}
              /\ pc' = IF media_kind = "audio" THEN "generate_thumbnail"
                                               ELSE "render_video"
              /\ UNCHANGED <<outcome, short_data>>
         ELSE ClipFails("OSError")
    /\ UNCHANGED <<exit_code, batch_failure, media_kind, source_path, source_state,
                   n_shorts, idx, handed, engine_failed, manifest_data,
                   manifest_written, outdir>>
    /\ UNCHANGED text_vars

\* The file ffmpeg writes at `name`: complete on success; on failure nothing or
\* a partial file.  The source media is hit when it carries that name.
EngineWrites(name, result) ==
    /\ outdir' = IF result = "nothing" THEN outdir
                 ELSE WriteOut(outdir, name, result = "complete")
    /\ source_state' =
         IF name = source_path /\ result # "nothing"
         THEN (IF result = "complete" THEN "overwritten" ELSE "partial")
         ELSE source_state

\* Lines 184-186 (audio source): the still image is drawn into the temporary
\* directory.  short_data['thumbnail_title'] raises KeyError when missing;
\* generate_thumbnail raises when the font cannot be loaded.
GenerateThumbnail ==
    /\ pc = "generate_thumbnail"
    /\ \E drawn \in BOOLEAN :
         IF ~Has(short_data.thumbnail_title)
         THEN ClipFails("KeyError")
         ELSE IF ~drawn
         THEN ClipFails("OSError")
         ELSE /\ work_dirs' = {[d EXCEPT !.files = @ \cup {"thumb"}] : d \in work_dirs}
              /\ pc' = "render_audio"
              /\ UNCHANGED <<outcome, short_data>>
    /\ UNCHANGED <<exit_code, batch_failure, media_kind, source_path, source_state,
                   n_shorts, idx, handed, engine_failed, manifest_data,
                   manifest_written, outdir>>
    /\ UNCHANGED text_vars

\* Lines 188-199 (audio source): one ffmpeg run writes the video into the
\* output directory, then the still image is copied there as the thumbnail.
RenderAudio ==
    /\ pc = "render_audio"
    /\ \E result \in {"complete", "partial", "nothing"} :
         IF result = "complete"
         THEN /\ outdir' = WriteOut(WriteOut(outdir, VideoName(short_data), TRUE),
                                    ThumbName(short_data), TRUE)
              /\ source_state' = IF VideoName(short_data) = source_path
                                 THEN "overwritten" ELSE source_state
              /\ pc' = "return"
              /\ UNCHANGED <<outcome, short_data, work_dirs, engine_failed>>
         ELSE /\ EngineWrites(VideoName(short_data), result)
              /\ engine_failed' = TRUE
              /\ ClipFails("CalledProcessError")
    /\ UNCHANGED <<exit_code, batch_failure, media_kind, source_path, n_shorts, idx,
                   handed, manifest_data, manifest_written>>
    /\ UNCHANGED text_vars

\* Lines 203-207 (video source): one ffmpeg run writes the video into the
\* output directory.
RenderVideo ==
    /\ pc = "render_video"
    /\ \E result \in {"complete", "partial", "nothing"} :
         /\ EngineWrites(VideoName(short_data), result)
         /\ IF result = "complete"
            THEN /\ pc' = "extract_thumb"
                 /\ UNCHANGED <<outcome, short_data, work_dirs,
                                engine_failed>>
            ELSE /\ engine_failed' = TRUE
                 /\ ClipFails("CalledProcessError")
    /\ UNCHANGED <<exit_code, batch_failure, media_kind, source_path, n_shorts, idx,
                   handed, manifest_data, manifest_written>>
    /\ UNCHANGED text_vars

\* Lines 209-210 (video source): a second ffmpeg run samples the thumbnail
\* from the rendered video.
ExtractThumb ==
    /\ pc = "extract_thumb"
    /\ \E result \in {"complete", "partial", "nothing"} :
         /\ EngineWrites(ThumbName(short_data), result)
         /\ IF result = "complete"
            THEN /\ pc' = "return"
                 /\ UNCHANGED <<outcome, short_data, work_dirs,
                                engine_failed>>
            ELSE /\ engine_failed' = TRUE
                 /\ ClipFails("CalledProcessError")
    /\ UNCHANGED <<exit_code, batch_failure, media_kind, source_path, n_shorts, idx,
                   handed, manifest_data, manifest_written>>
    /\ UNCHANGED text_vars

\* The with-block ends (the temporary directory is removed), line 212 builds
\* the record (short_data['language'] raises KeyError when missing) and line
\* 261 appends it.
ReturnRecord ==
    /\ pc = "return"
    /\ IF ~Has(short_data.language)
       THEN /\ ClipFails("KeyError")
            /\ UNCHANGED manifest_data
       ELSE /\ manifest_data' = Append(manifest_data, ResultRecord(short_data))
            /\ outcome' = Append(outcome, "done")
            /\ pc' = "loop"
            /\ work_dirs' = {}
            /\ short_data' = NoShort
    /\ UNCHANGED <<exit_code, batch_failure, media_kind, source_path, source_state,
                   n_shorts, idx, handed, engine_failed, manifest_written, outdir>>
    /\ UNCHANGED text_vars

Next ==
    \/ CheckDependencies \/ LoadPlan \/ PrepareMediaSource \/ CheckFonts
    \/ LoadShorts \/ NextShort \/ EndLoop \/ WriteManifest
    \/ Validate \/ WriteSrt \/ PrepareWorkDir \/ GenerateThumbnail
    \/ RenderAudio \/ RenderVideo \/ ExtractThumb \/ ReturnRecord

Spec == Init /\ [][Next]_vars

(***************************************************************************)
(* Properties of the batch (specification Spec).                           *)
(***************************************************************************)
\* The positions inside process_short.
ClipPcs == {"validate", "write_srt", "prepare", "generate_thumbnail",
            "render_audio", "render_video", "extract_thumb", "return"}

\* The plan's notion of a clip's duration: end_sec - start_sec.
PlanDuration(sd) == sd.end_sec - sd.start_sec

\* A clip failed when an exception ended it.
Failed(o) == o \notin {"done", "skipped"}

\* The ids of the handed entries that ended "done", in plan order.  (Every
\* fetched entry was handed when the run reached its end, so the i-th outcome
\* belongs to the entry of id i.)
DoneIds == SelectSeq([i \in DOMAIN outcome |-> IF outcome[i] = "done" THEN i ELSE 0],
                     LAMBDA i : i # 0)

RunReachedEnd == pc = "exit" /\ exit_code = "0"

\* C1: an entry whose end_sec - start_sec is below 5 or above 60 writes no
\* file into the output directory and adds no manifest record at any step of
\* its handling, and its handling ends as a skip, the loop going on.  (Stated
\* for the entries that carry the keys process_short reads first, title and
\* duration_sec; without them line 161 or 166 raises KeyError, no skip.)
C1_OutOfRangeIsSkipped ==
    [][(pc \in ClipPcs
          /\ short_data.title # Missing /\ Has(short_data.duration_sec)
          /\ ~(MinDuration <= PlanDuration(short_data)
               /\ PlanDuration(short_data) <= MaxDuration))
       => /\ outdir' = outdir
          /\ manifest_data' = manifest_data
          /\ (pc' \notin ClipPcs
                => pc' = "loop" /\ outcome' = Append(outcome, "skipped"))]_vars

\* An entry that carries exactly the fields of the plan-input interface: no
\* duration_sec key; srt and thumbnail_title present or absent.
InterfaceEntry(sd) ==
    /\ sd.title = "Hello World"
    /\ sd.duration_sec = <<>>
    /\ Has(sd.language)

\* C2: an interface entry with 5 <= end_sec - start_sec <= 60 ends Done with
\* exactly one new record whenever no engine invocation failed for it, on a
\* video source and on an audio source.
C2_InterfaceEntryReachesDone ==
    [][(pc \in ClipPcs /\ pc' \notin ClipPcs
          /\ InterfaceEntry(short_data)
          /\ MinDuration <= PlanDuration(short_data)
          /\ PlanDuration(short_data) <= MaxDuration
          /\ ~engine_failed')
       => /\ outcome' = Append(outcome, "done")
          /\ Len(manifest_data') = Len(manifest_data) + 1
          /\ manifest_data'[Len(manifest_data')].id = short_data.id]_vars

\* C3: when the run reaches its end, the manifest has one row per plan entry
\* that was neither skipped nor failed, the rows are in plan order, and the
\* manifest file is written iff there is at least one row.
C3_ManifestRows ==
    RunReachedEnd =>
        /\ Len(manifest_data)
             = n_shorts - Cardinality({i \in DOMAIN outcome : outcome[i] = "skipped"})
                        - Cardinality({i \in DOMAIN outcome : Failed(outcome[i])})
        /\ [i \in DOMAIN manifest_data |-> manifest_data[i].id] = DoneIds
        /\ manifest_written <=> Len(manifest_data) > 0

C3_Witness ==
    /\ RunReachedEnd
    /\ manifest_written
    /\ n_shorts = 2
    /\ Len(manifest_data) = 1
    /\ outcome = <<"CalledProcessError", "done">>

\* C4: once the loop has started, whatever happens to one entry, the run ends
\* only after every entry was handed to process_short and the manifest step
\* was reached.
C4_FailureIsolation ==
    (pc = "exit" /\ n_shorts > 0) => (handed = n_shorts /\ exit_code = "0")

\* C5: when the engine, the plan, the media source or a needed font is
\* missing, the run has ended with a non-zero outcome, process_short was never
\* called, and neither a per-clip file nor the manifest was written.
C5_BatchFailureAborts ==
    batch_failure # "none" =>
        /\ pc = "exit"
        /\ exit_code \in {"1", "traceback"}
        /\ handed = 0 /\ idx = 0
        /\ outdir = {}
        /\ manifest_data = <<>> /\ ~manifest_written

C5_Witness == batch_failure = "font" /\ pc = "exit" /\ media_kind = "video"

\* The files a manifest row names.
RowFiles(r) == {r.video_path, r.thumb_path} \cup {r.srt_path[i] : i \in DOMAIN r.srt_path}

\* C9: when the only failures of a run are failed engine invocations
\* (rendering, thumbnail extraction), at its end every file written into the
\* output directory is named by a manifest row, and every row's video and
\* thumbnail are complete.
C9_NoOrphanOutputs ==
    (RunReachedEnd
       /\ \A i \in DOMAIN outcome :
            outcome[i] \in {"done", "skipped", "CalledProcessError"}) =>
        /\ \A f \in outdir :
             \E i \in DOMAIN manifest_data : f.name \in RowFiles(manifest_data[i])
        /\ \A i \in DOMAIN manifest_data :
             /\ [name |-> manifest_data[i].video_path, complete |-> TRUE] \in outdir
             /\ [name |-> manifest_data[i].thumb_path, complete |-> TRUE] \in outdir

\* C10: a clip's temporary directory exists only between its validation and
\* the next entry, never two at a time, and no clip writes the source media.
C10_ScopedWorkDir ==
    /\ Cardinality(work_dirs) <= 1
    /\ \A d \in work_dirs : pc \in ClipPcs /\ d.clip = short_data.id
    /\ pc \in {"loop", "validate", "write_srt", "manifest", "exit"} => work_dirs = {}
    /\ source_state = "intact"

(***************************************************************************)
(* Text layout.  A word is its number of characters, a line is a sequence  *)
(* of words joined by single spaces.  The font is taken fixed-pitch: at    *)
(* size s every glyph, the space included, advances s/2 pixels.            *)
(***************************************************************************)
WordLens == 1..MaxWordLen

\* The word sequences of at most n words.
WordSeqs(n) == UNION {[1..k -> WordLens] : k \in 0..n}

RECURSIVE SumSeq(_)
SumSeq(q) == IF q = <<>> THEN 0 ELSE q[1] + SumSeq(Tail(q))

\* Characters of the line f"{w1} {w2} ...".
Chars(line) == IF line = <<>> THEN 0 ELSE SumSeq(line) + Len(line) - 1

Reverse(q) == [i \in 1..Len(q) |-> q[Len(q) + 1 - i]]

\* process_rtl_text(): reshape, then reorder for display.  Right-to-left text
\* comes out in visual order, its words reversed; left-to-right text is
\* returned as it is.
process_rtl_text(line, script) == IF script = "rtl" THEN Reverse(line) ELSE line

\* font.getlength(text) for the font loaded at font_size.
getlength(line, size) == Chars(line) * (size \div 2)

\* Lines 137-144 and 146-153: the greedy wrap of generate_thumbnail.  The
\* state of the for loop is (lines, current_line); the trailing
\* `if current_line` appends the last line.
RECURSIVE thumb_wrap_loop(_, _, _, _, _)
thumb_wrap_loop(words, lines, current_line, size, max_width) ==
    IF words = <<>>
    THEN <<lines, current_line>>
    ELSE LET word == Head(words)
             new_line == Append(current_line, word)
         IN IF current_line = <<>>
            THEN thumb_wrap_loop(Tail(words), lines, <<word>>, size, max_width)
            ELSE IF getlength(new_line, size) <= max_width
            THEN thumb_wrap_loop(Tail(words), lines, new_line, size, max_width)
            ELSE thumb_wrap_loop(Tail(words), Append(lines, current_line), <<word>>,
                                 size, max_width)

\* The wrap without its trailing append: the last line is lost.
thumb_wrap_no_tail(words, size, max_width) ==
    thumb_wrap_loop(words, <<>>, <<>>, size, max_width)[1]

thumb_wrap(words, size, max_width) ==
    LET end == thumb_wrap_loop(words, <<>>, <<>>, size, max_width)
    IN IF end[2] # <<>> THEN Append(end[1], end[2]) ELSE end[1]

(***************************************************************************)
(* generate_thumbnail (specification SpecThumb).                           *)
(***************************************************************************)
DEFAULT_MARGIN == 40
DEFAULT_MAX_LINES == 2

\* The calls of generate_thumbnail the model draws.
ThumbCalls ==
    [pc : {"start"},
     title : WordSeqs(MaxWords),
     direction : {"ltr", "rtl"},
     width : {100, 120},
     height : {120, 132, 144, 168},
     margin : {DEFAULT_MARGIN},
     max_lines : {1, DEFAULT_MAX_LINES},
     font_size : {0},
     words : {<<>>},
     lines : {<<>>}]

InitThumb ==
    /\ BatchIdle /\ srt = Idle /\ wrap = Idle
    /\ thumb \in ThumbCalls

\* Lines 134-144: the starting size int(height / 12) and the first wrap.
ThumbFirstWrap ==
    /\ thumb.pc = "start"
    /\ LET size == thumb.height \div HeightDivisor
           words == IF thumb.direction = "rtl"
                    THEN process_rtl_text(thumb.title, "rtl")
                    ELSE thumb.title
       IN thumb' = [thumb EXCEPT
                      !.pc = "loop",
                      !.font_size = size,
                      !.words = words,
                      !.lines = thumb_wrap(words, size, thumb.width - 2 * thumb.margin)]
    /\ UNCHANGED <<batch_vars, srt, wrap>>

\* Line 145.
ShrinkCondition == Len(thumb.lines) > thumb.max_lines /\ thumb.font_size > FontFloor

\* Lines 145-153: one turn of the shrink loop.
ThumbShrink ==
    /\ thumb.pc = "loop"
    /\ ShrinkCondition
    /\ LET size == thumb.font_size - ShrinkStep
       IN thumb' = [thumb EXCEPT
                      !.font_size = size,
                      !.lines = thumb_wrap(thumb.words, size,
                                           thumb.width - 2 * thumb.margin)]
    /\ UNCHANGED <<batch_vars, srt, wrap>>

\* Lines 154-158: the loop is left and the lines are drawn at font_size.
ThumbRender ==
    /\ thumb.pc = "loop"
    /\ ~ShrinkCondition
    /\ thumb' = [thumb EXCEPT !.pc = "rendered"]
    /\ UNCHANGED <<batch_vars, srt, wrap>>

NextThumb == ThumbFirstWrap \/ ThumbShrink \/ ThumbRender

SpecThumb == InitThumb /\ [][NextThumb]_vars

\* The loop is sequential code: a step that can be taken is taken.
FairSpecThumb == SpecThumb /\ WF_vars(NextThumb)

\* C6: the shrink loop ends with the line count within max_lines or the font
\* size at the floor of 10, and never renders below 10 when it started at 10
\* or above.
C6_ShrinkStopsAtFloor ==
    thumb.pc = "rendered" =>
        /\ Len(thumb.lines) <= thumb.max_lines \/ thumb.font_size = FontFloor
        /\ thumb.height \div HeightDivisor >= FontFloor => thumb.font_size >= FontFloor

\* The loop of generate_thumbnail terminates for every title.
ThumbTerminates == <>(thumb.pc = "rendered")

(***************************************************************************)
(* wrap_srt_text (specification SpecSrt).                                  *)
(***************************************************************************)
\* Lines 95-101: the greedy loop over line.split(' '); a candidate line is
\* measured after process_rtl_text, the unreshaped line is what is kept.
RECURSIVE srt_wrap_loop(_, _, _, _, _, _)
srt_wrap_loop(words, wrapped, current_line, script, size, max_width) ==
    IF words = <<>>
    THEN <<wrapped, current_line>>
    ELSE LET word == Head(words)
             test_line == Append(current_line, word)
         IN IF current_line = <<>>
            THEN srt_wrap_loop(Tail(words), wrapped, <<word>>, script, size, max_width)
            ELSE IF getlength(process_rtl_text(test_line, script), size) <= max_width
            THEN srt_wrap_loop(Tail(words), wrapped, test_line, script, size, max_width)
            ELSE srt_wrap_loop(Tail(words), Append(wrapped, current_line), <<word>>,
                               script, size, max_width)

\* Lines 95-102: the greedy wrap of the words of one line.
srt_wrap_words(words, script, size, max_width) ==
    LET end == srt_wrap_loop(words, <<>>, <<>>, script, size, max_width)
    IN IF end[2] # <<>> THEN Append(end[1], end[2]) ELSE end[1]

\* Lines 92-102 for one text line: a line that fits is kept whole, a longer
\* one is wrapped on its own.
srt_wrap_line(line, script, size, max_width) ==
    IF getlength(process_rtl_text(line, script), size) <= max_width
    THEN <<line>>
    ELSE srt_wrap_words(line, script, size, max_width)

\* Lines 91-102: the text lines of a block, one after the other.
RECURSIVE srt_wrap_text(_, _, _, _)
srt_wrap_text(text_lines, script, size, max_width) ==
    IF text_lines = <<>>
    THEN <<>>
    ELSE srt_wrap_line(Head(text_lines), script, size, max_width)
           \o srt_wrap_text(Tail(text_lines), script, size, max_width)

\* Line 89: a block is rewrapped when it has two lines or more and the second
\* holds '-->'.
ValidHeader(block) == Len(block.header) >= 2 /\ block.header[2] = "-->"

\* Lines 87-103 for one block: passed through, or header + wrapped text; the
\* separator that follows the block is kept in both cases.
srt_block(block, script, size, max_width) ==
    IF ~ValidHeader(block)
    THEN block
    ELSE [block EXCEPT !.text = srt_wrap_text(block.text, script, size, max_width)]

\* Caption lines of one or two words, and texts of up to two such lines.
SrtLines == {<<a>> : a \in WordLens} \cup {<<a, b>> : a, b \in WordLens}
SrtTexts == {<<>>} \cup {<<l>> : l \in SrtLines} \cup {<<l, m>> : l, m \in SrtLines}

\* A block: its header lines (the index, then the time range with '-->' or
\* some other text), its text lines, the separator after it.
SrtBlocks ==
    [header : {<<"1", "-->">>, <<"1", "00:00">>},
     text : SrtTexts,
     separator : {"\n\n"}]
    \cup [header : {<<"1">>}, text : {<<>>}, separator : {"\n\n"}]

\* A stray line before the first block.
Fragment == [header |-> <<"WEBVTT">>, text |-> <<>>, separator |-> "\n\n"]

SrtCalls ==
    [pc : {"start"},
     srt_content : {<<b>> : b \in SrtBlocks} \cup {<<Fragment, b>> : b \in SrtBlocks},
     script : {"ltr", "rtl"},
     font_size : {10},
     max_width : {15, 25},
     font_loaded : {FALSE},
     i : {1},
     wrapped_content : {<<>>}]

InitSrt ==
    /\ BatchIdle /\ thumb = Idle /\ wrap = Idle
    /\ srt \in SrtCalls

\* Lines 83-85: without the font the content is returned as it came.
SrtLoadFont ==
    /\ srt.pc = "start"
    /\ \E loaded \in BOOLEAN :
         srt' = IF loaded
                THEN [srt EXCEPT !.pc = "blocks", !.font_loaded = TRUE]
                ELSE [srt EXCEPT !.pc = "returned",
                                 !.wrapped_content = srt.srt_content]
    /\ UNCHANGED <<batch_vars, thumb, wrap>>

\* Lines 86-103: one turn of the loop over the blocks.
SrtBlock ==
    /\ srt.pc = "blocks"
    /\ srt.i <= Len(srt.srt_content)
    /\ srt' = [srt EXCEPT
                 !.i = @ + 1,
                 !.wrapped_content =
                     Append(@, srt_block(srt.srt_content[srt.i], srt.script,
                                         srt.font_size, srt.max_width))]
    /\ UNCHANGED <<batch_vars, thumb, wrap>>

\* Line 104.
SrtReturn ==
    /\ srt.pc = "blocks"
    /\ srt.i > Len(srt.srt_content)
    /\ srt' = [srt EXCEPT !.pc = "returned"]
    /\ UNCHANGED <<batch_vars, thumb, wrap>>

NextSrt == SrtLoadFont \/ SrtBlock \/ SrtReturn

SpecSrt == InitSrt /\ [][NextSrt]_vars

RECURSIVE Flatten(_)
Flatten(text_lines) ==
    IF text_lines = <<>> THEN <<>> ELSE Head(text_lines) \o Flatten(Tail(text_lines))

\* C7: for every block with a valid header, the emitted text is the greedy
\* wrap of the block's text lines concatenated into one word stream; the
\* header and the separator are emitted unchanged.
C7_FlatStreamRewrap ==
    (srt.pc = "returned" /\ srt.font_loaded) =>
        \A k \in DOMAIN srt.srt_content :
            LET block == srt.srt_content[k]
                out == srt.wrapped_content[k]
            IN ValidHeader(block) =>
                 /\ out.header = block.header
                 /\ out.separator = block.separator
                 /\ out.text = srt_wrap_words(Flatten(block.text), srt.script,
                                              srt.font_size, srt.max_width)

(***************************************************************************)
(* The two word wraps applied twice (specification SpecWrap).              *)
(***************************************************************************)
\* The wrap of generate_thumbnail over each line of an earlier result.
RECURSIVE thumb_wrap_lines(_, _, _)
thumb_wrap_lines(lines, size, max_width) ==
    IF lines = <<>>
    THEN <<>>
    ELSE thumb_wrap(Head(lines), size, max_width)
           \o thumb_wrap_lines(Tail(lines), size, max_width)

WrapCalls ==
    [pc : {"start"},
     words : WordSeqs(MaxWords),
     script : {"ltr", "rtl"},
     font_size : {10},
     max_width : {15, 25, 40},
     srt_first : {<<>>}, srt_again : {<<>>},
     thumb_first : {<<>>}, thumb_again : {<<>>}]

InitWrap ==
    /\ BatchIdle /\ thumb = Idle /\ srt = Idle
    /\ wrap \in WrapCalls

\* The words are wrapped as one caption line and as a title.
WrapFirst ==
    /\ wrap.pc = "start"
    /\ wrap' = [wrap EXCEPT
                  !.pc = "first",
                  !.srt_first = srt_wrap_text(<<wrap.words>>, wrap.script,
                                              wrap.font_size, wrap.max_width),
                  !.thumb_first = thumb_wrap(wrap.words, wrap.font_size,
                                             wrap.max_width)]
    /\ UNCHANGED <<batch_vars, thumb, srt>>

\* The lines of the first pass are wrapped again, at the same size and width.
WrapAgain ==
    /\ wrap.pc = "first"
    /\ wrap' = [wrap EXCEPT
                  !.pc = "again",
                  !.srt_again = srt_wrap_text(wrap.srt_first, wrap.script,
                                              wrap.font_size, wrap.max_width),
                  !.thumb_again = thumb_wrap_lines(wrap.thumb_first, wrap.font_size,
                                                   wrap.max_width)]
    /\ UNCHANGED <<batch_vars, thumb, srt>>

NextWrap == WrapFirst \/ WrapAgain

SpecWrap == InitWrap /\ [][NextWrap]_vars

\* C8: wrapping the lines that a first wrap produced gives the same lines
\* again, for the wrap of wrap_srt_text and for the wrap of
\* generate_thumbnail at a fixed font size.
C8_WrapIdempotent ==
    wrap.pc = "again" =>
        /\ wrap.srt_again = wrap.srt_first
        /\ wrap.thumb_again = wrap.thumb_first

\* A first wrap that broke the words into a two-word line and a single word
\* wider than max_width, wrapped again.
C8_Witness ==
    /\ wrap.pc = "again"
    /\ Len(wrap.thumb_first) = 2 /\ Len(wrap.srt_first) = 2
    /\ Len(wrap.thumb_first[1]) = 2
    /\ getlength(wrap.thumb_first[2], wrap.font_size) > wrap.max_width

====
